---------------------------- MODULE Spec2Model ----------------------------
(***************************************************************************)
(* Shift-Prompter (src/main.py): the snippet store kept by PromptWindow,   *)
(* and the double-tap hotkey of ShiftPrompterApp.                          *)
(*                                                                         *)
(* prompts_data is a Python dict whose keys may be missing, so a document  *)
(* is a function from the keys that are present to their values; a        *)
(* category and a snippet are records.  The backing file prompts.json is  *)
(* a tagged value: what json.load would make of it.  json.dump followed   *)
(* by json.load of dicts, lists, strings, booleans and integers gives an  *)
(* equal value, so a written document is kept as the document value.      *)
(***************************************************************************)
EXTENDS Integers, Sequences, FiniteSets, TLC

VARIABLES
    pc,            \* "start": before PromptWindow.__init__; "idle": in the Qt
                   \* event loop; "handled": a handler has just returned;
                   \* "crashed": an exception no handler caught ended the process
    prompts_data,  \* PromptWindow.prompts_data
    file,          \* the content of PROMPTS_FILE
    faults,        \* how many of the next writes of PROMPTS_FILE may fail
    last,          \* the handler that has just returned: its name, the
                   \* arguments it read, its outcome, and the document and
                   \* the file it started from
    last_shift_press_time,  \* ShiftPrompterApp.last_shift_press_time, in
                   \* tenths of a second
    clock,         \* what time.monotonic() returns, in tenths of a second
    pending,       \* emissions of toggle_window_signal queued for the
                   \* owning thread
    visible,       \* prompt_window.isVisible()
    tap,           \* the key event on_shift_press has just handled: the
                   \* key, the time since last_shift_press_time, whether a
                   \* Shift press came before it, whether it emitted
    pressed        \* a Shift press has been handled since the start

appvars == <<last_shift_press_time, clock, pending, visible, tap, pressed>>

vars == <<pc, prompts_data, file, faults, last,
          last_shift_press_time, clock, pending, visible, tap, pressed>>

-----------------------------------------------------------------------------
(* Bounds *)

\* The most snippets the document holds (add_prompt is not offered beyond).
MaxPrompts == 3
\* The disk is unreliable for the first MaxFaultyWrites writes of the file:
\* each of them may fail; the writes after them succeed.
MaxFaultyWrites == 3

-----------------------------------------------------------------------------
(* Program constants and input alphabets *)

DATA_VERSION == 2
\* 0.4 s, in tenths of a second.
DOUBLE_TAP_THRESHOLD_S == 4
UNCATEGORIZED_NAME == "Uncategorized"

\* Names and contents the user types; "" is the empty text of a line edit.
PromptNames == {"Closing", "Quick Question"}
TypedContents == {"Kind regards,\n\n"}
CatNames == {"Email", "Work"}

Prompt(n, c) == [name |-> n, content |-> c]
Category(n, ps, e) == [name |-> n, prompts |-> ps, expanded |-> e]

-----------------------------------------------------------------------------
(* Python dict and list primitives *)

\* {} : the dict with no key.
EmptyDict == [k \in {} |-> TRUE]

Has(d, k) == k \in DOMAIN d

\* d.get(k, default)
Get(d, k, default) == IF Has(d, k) THEN d[k] ELSE default

\* d[k] = v
Put(d, k, v) == [x \in (DOMAIN d) \cup {k} |-> IF x = k THEN v ELSE d[x]]

\* list.pop(i) leaves this list (i counted from 1).
RemoveAt(s, i) == [j \in 1..(Len(s) - 1) |-> IF j < i THEN s[j] ELSE s[j + 1]]

\* list.insert(i - 1, x): x ends at position i (i counted from 1); an index
\* past the end appends.
InsertAt(s, i, x) ==
    LET k == IF i > Len(s) + 1 THEN Len(s) + 1 ELSE i
    IN  [j \in 1..(Len(s) + 1) |->
            IF j < k THEN s[j] ELSE IF j = k THEN x ELSE s[j - 1]]

\* next((i for i, p in enumerate(s) if p["name"] == n), -1), counted from 1,
\* 0 when there is none.
IndexOfName(s, n) ==
    IF \E i \in 1..Len(s) : s[i].name = n
    THEN CHOOSE i \in 1..Len(s) :
            /\ s[i].name = n
            /\ \A j \in 1..(i - 1) : s[j].name # n
    ELSE 0


\* The position of the first element equal to x, 0 when there is none
\* (list.remove(x) removes that element).
IndexOfEqual(s, x) ==
    IF \E i \in 1..Len(s) : s[i] = x
    THEN CHOOSE i \in 1..Len(s) :
            /\ s[i] = x
            /\ \A j \in 1..(i - 1) : s[j] # x
    ELSE 0

-----------------------------------------------------------------------------
(* The document *)

\* The value a handler returns to its action: the document it leaves, how it
\* ended ("done": ran to its end; "rejected": warned and returned; "noop":
\* returned silently) and whether it called save_prompts.
Result(d, r, s) == [doc |-> d, res |-> r, saved |-> s]

RECURSIVE SumLen(_, _)
SumLen(cats, i) ==
    IF i > Len(cats) THEN 0 ELSE Len(cats[i].prompts) + SumLen(cats, i + 1)

\* The number of snippets held by the document, over all its lists.
TotalPrompts(d) ==
    Len(Get(d, "uncategorized", <<>>)) + SumLen(Get(d, "categories", <<>>), 1)

get_category_names(d) ==
    <<UNCATEGORIZED_NAME>> \o
        [i \in 1..Len(Get(d, "categories", <<>>)) |-> d.categories[i].name]

InSeq(x, s) == \E i \in 1..Len(s) : s[i] = x

\* find_prompt_list returns a reference to a list object.  "unc" and "cat"
\* are lists held by the document; "detached" is the fresh [] that
\* .get("uncategorized", []) makes when the key is missing, which the
\* document does not hold; "none" is None.
ListRef(k, i) == [kind |-> k, idx |-> i]

find_prompt_list(d, category_name) ==
    IF category_name = UNCATEGORIZED_NAME
    THEN IF Has(d, "uncategorized") THEN ListRef("unc", 0)
                                    ELSE ListRef("detached", 0)
    ELSE LET i == IndexOfName(Get(d, "categories", <<>>), category_name)
         IN  IF i = 0 THEN ListRef("none", 0) ELSE ListRef("cat", i)

\* The elements of the list a reference names.
ListAt(d, ref) ==
    CASE ref.kind = "unc" -> d.uncategorized
      [] ref.kind = "cat" -> d.categories[ref.idx].prompts
      [] OTHER -> <<>>

\* The document after the list a reference names becomes s; a change of a
\* detached list changes no document.
SetListAt(d, ref, s) ==
    CASE ref.kind = "unc" -> [d EXCEPT !.uncategorized = s]
      [] ref.kind = "cat" -> [d EXCEPT !.categories[ref.idx].prompts = s]
      [] OTHER -> d

-----------------------------------------------------------------------------
(* The backing file *)

File(k, v) == [kind |-> k, data |-> v]
FileAbsent == File("absent", <<>>)
\* The file exists and open() for reading raises IOError.
FileUnreadable == File("unreadable", <<>>)
\* Text json.load rejects; a write that failed part-way leaves such text.
FileGarbage == File("garbage", <<>>)
\* Valid JSON that is a number, a string or null.
FileScalar == File("scalar", <<>>)
FileList(s) == File("list", s)
FileDict(d) == File("dict", d)

\* save_prompts that reports success and leaves the file as it was.
save_prompts_unwritten(d, f, n) ==
    IF n > 0
    THEN {[file |-> f, faults |-> n - 1, save |-> "ok"],
          [file |-> f, faults |-> n - 1, save |-> "fail"],
          [file |-> FileGarbage, faults |-> n - 1, save |-> "fail"]}
    ELSE {[file |-> f, faults |-> 0, save |-> "ok"]}

\* save_prompts with n writes still unreliable: the write succeeds, or
\* (IOError, caught and reported) open() fails and the file is untouched, or
\* the write fails after open(..., "w") truncated the file.
save_prompts(d, f, n) ==
    IF n > 0
    THEN {[file |-> FileDict(d), faults |-> n - 1, save |-> "ok"],
          [file |-> f, faults |-> n - 1, save |-> "fail"],
          [file |-> FileGarbage, faults |-> n - 1, save |-> "fail"]}
    ELSE {[file |-> FileDict(d), faults |-> 0, save |-> "ok"]}

-----------------------------------------------------------------------------
(* Loading *)

\* migrate_prompts_data that stores the legacy list back to front.
migrate_prompts_data_reversed(old_data) ==
    [version |-> DATA_VERSION, categories |-> <<>>,
     uncategorized |-> [i \in 1..Len(old_data) |-> old_data[Len(old_data) + 1 - i]]]

migrate_prompts_data(old_data) ==
    [version |-> DATA_VERSION, categories |-> <<>>, uncategorized |-> old_data]

\* The document load_prompts seeds when the file does not exist.
DefaultDoc ==
    [version |-> DATA_VERSION,
     categories |-> <<Category("Email", <<Prompt("Closing", "Kind regards,\n\n")>>, TRUE)>>,
     uncategorized |-> <<Prompt("Quick Question", "Hi, I have a quick question: ")>>,
     uncategorized_expanded |-> TRUE]

\* for category in ...: if "expanded" not in category: category["expanded"] = True
FillExpanded(cats) ==
    [i \in 1..Len(cats) |->
        IF Has(cats[i], "expanded") THEN cats[i] ELSE Put(cats[i], "expanded", TRUE)]

\* The three back-filling statements of load_prompts.
BackFill(d) ==
    LET d1 == IF Has(d, "uncategorized") THEN d ELSE Put(d, "uncategorized", <<>>)
        d2 == IF Has(d1, "uncategorized_expanded") THEN d1
              ELSE Put(d1, "uncategorized_expanded", TRUE)
    IN  IF Has(d2, "categories")
        THEN [d2 EXCEPT !.categories = FillExpanded(d2.categories)]
        ELSE d2

\* load_prompts on file content f: the document it leaves in prompts_data,
\* and how it ended.  "error": IOError or JSONDecodeError, caught, reported,
\* prompts_data stays the {} of __init__.  "crash": the decoded value is no
\* dict and no list, `"uncategorized" not in data` or the assignment after it
\* raises TypeError, which the except clause does not name.
load_prompts(f) ==
    CASE f.kind = "absent" -> Result(BackFill(DefaultDoc), "done", TRUE)
      [] f.kind = "list" ->
            Result(BackFill(migrate_prompts_data(f.data)), "done", TRUE)
      [] f.kind = "dict" -> Result(BackFill(f.data), "done", TRUE)
      [] f.kind = "scalar" -> Result(EmptyDict, "crash", FALSE)
      [] OTHER -> Result(EmptyDict, "error", FALSE)

-----------------------------------------------------------------------------
(* The handlers of PromptWindow, as functions of the document *)

\* add_prompt without the test of line 301.
add_prompt_unvalidated(d, name, content, category_name) ==
    LET prompt_list == find_prompt_list(d, category_name)
    IN  Result(IF prompt_list.kind # "none"
               THEN SetListAt(d, prompt_list,
                       Append(ListAt(d, prompt_list), Prompt(name, content)))
               ELSE d,
               "done", TRUE)

add_prompt(d, name, content, category_name) ==
    IF name = "" \/ content = ""
    THEN Result(d, "rejected", FALSE)
    ELSE LET prompt_list == find_prompt_list(d, category_name)
         IN  Result(IF prompt_list.kind # "none"
                    THEN SetListAt(d, prompt_list,
                            Append(ListAt(d, prompt_list), Prompt(name, content)))
                    ELSE d,
                    "done", TRUE)

\* add_category without the test of line 309.
add_category_unchecked(d, text) ==
    IF text = ""
    THEN Result(d, "noop", FALSE)
    ELSE Result(Put(d, "categories",
                    Append(Get(d, "categories", <<>>), Category(text, <<>>, TRUE))),
                "done", TRUE)

add_category(d, text) ==
    IF text = ""
    THEN Result(d, "noop", FALSE)
    ELSE IF InSeq(text, get_category_names(d))
    THEN Result(d, "rejected", FALSE)
    ELSE Result(Put(d, "categories",
                    Append(Get(d, "categories", <<>>), Category(text, <<>>, TRUE))),
                "done", TRUE)

\* rename_category without the test of line 318.
rename_category_unchecked(d, old_name, new_name) ==
    IF new_name = "" \/ new_name = old_name
    THEN Result(d, "noop", FALSE)
    ELSE LET i == IndexOfName(d.categories, old_name)
         IN  Result(IF i = 0 THEN d
                    ELSE [d EXCEPT !.categories[i].name = new_name],
                    "done", TRUE)

\* edit_item of a category item.
rename_category(d, old_name, new_name) ==
    IF new_name = "" \/ new_name = old_name
    THEN Result(d, "noop", FALSE)
    ELSE IF InSeq(new_name, get_category_names(d))
    THEN Result(d, "rejected", FALSE)
    ELSE LET i == IndexOfName(d.categories, old_name)
         IN  Result(IF i = 0 THEN d
                    ELSE [d EXCEPT !.categories[i].name = new_name],
                    "done", TRUE)

\* edit_item of a prompt item, the dialog accepted.
edit_prompt(d, p_name, c_name, new_n, new_c, new_cat_n) ==
    LET p_list == find_prompt_list(d, c_name)
        i == IndexOfName(ListAt(d, p_list), p_name)
    IN  IF i = 0
        THEN Result(d, "noop", FALSE)
        ELSE IF new_n = "" \/ new_c = ""
        THEN Result(d, "rejected", FALSE)
        ELSE LET prompt == ListAt(d, p_list)[i]
                 d1 == SetListAt(d, p_list,
                          RemoveAt(ListAt(d, p_list),
                                   IndexOfEqual(ListAt(d, p_list), prompt)))
                 new_p_list == find_prompt_list(d1, new_cat_n)
             IN  Result(IF new_p_list.kind # "none"
                        THEN SetListAt(d1, new_p_list,
                                Append(ListAt(d1, new_p_list), Prompt(new_n, new_c)))
                        ELSE d1,
                        "done", TRUE)

\* delete_category that puts the prompts of the category in front of the
\* uncategorized ones.
delete_category_prepending(d, name) ==
    IF name = UNCATEGORIZED_NAME
    THEN Result(d, "noop", FALSE)
    ELSE LET i == IndexOfName(d.categories, name)
         IN  IF i = 0
             THEN Result(d, "noop", FALSE)
             ELSE LET cat == d.categories[i]
                      d1 == Put(d, "uncategorized",
                                cat.prompts \o Get(d, "uncategorized", <<>>))
                  IN  Result([d1 EXCEPT !.categories =
                                 RemoveAt(d.categories, IndexOfEqual(d.categories, cat))],
                             "done", TRUE)

\* delete_item of a category item, the question answered Yes.
delete_category(d, name) ==
    IF name = UNCATEGORIZED_NAME
    THEN Result(d, "noop", FALSE)
    ELSE LET i == IndexOfName(d.categories, name)
         IN  IF i = 0
             THEN Result(d, "noop", FALSE)
             ELSE LET cat == d.categories[i]
                      d1 == Put(d, "uncategorized",
                                Get(d, "uncategorized", <<>>) \o cat.prompts)
                  IN  Result([d1 EXCEPT !.categories =
                                 RemoveAt(d.categories, IndexOfEqual(d.categories, cat))],
                             "done", TRUE)

\* delete_item of a prompt item, the question answered Yes.
delete_prompt(d, name, category) ==
    LET p_list == find_prompt_list(d, category)
        i == IndexOfName(ListAt(d, p_list), name)
    IN  IF i = 0
        THEN Result(d, "noop", FALSE)
        ELSE Result(SetListAt(d, p_list,
                        RemoveAt(ListAt(d, p_list),
                                 IndexOfEqual(ListAt(d, p_list), ListAt(d, p_list)[i]))),
                    "done", TRUE)

handle_prompt_move(d, prompt_name, old_c_name, new_c_name) ==
    LET old_p_list == find_prompt_list(d, old_c_name)
        i == IndexOfName(ListAt(d, old_p_list), prompt_name)
    IN  IF i = 0
        THEN Result(d, "noop", FALSE)
        ELSE LET prompt == ListAt(d, old_p_list)[i]
                 d1 == SetListAt(d, old_p_list,
                          RemoveAt(ListAt(d, old_p_list),
                                   IndexOfEqual(ListAt(d, old_p_list), prompt)))
                 new_p_list == find_prompt_list(d1, new_c_name)
             IN  Result(IF new_p_list.kind # "none"
                        THEN SetListAt(d1, new_p_list,
                                Append(ListAt(d1, new_p_list), prompt))
                        ELSE d1,
                        "done", TRUE)

\* handle_prompt_reorder that inserts at the index the target has once the
\* dragged prompt is out of the list.
handle_prompt_reorder_before(d, category_name, dragged_prompt_name, target_prompt_name) ==
    LET prompt_list == find_prompt_list(d, category_name)
        l == ListAt(d, prompt_list)
        dragged_idx == IndexOfName(l, dragged_prompt_name)
        target_idx == IndexOfName(l, target_prompt_name)
    IN  IF prompt_list.kind = "none" \/ dragged_idx = 0 \/ target_idx = 0
        THEN Result(d, "noop", FALSE)
        ELSE Result(SetListAt(d, prompt_list,
                        InsertAt(RemoveAt(l, dragged_idx),
                                 IF dragged_idx < target_idx THEN target_idx - 1
                                                             ELSE target_idx,
                                 l[dragged_idx])),
                    "done", TRUE)

handle_prompt_reorder(d, category_name, dragged_prompt_name, target_prompt_name) ==
    LET prompt_list == find_prompt_list(d, category_name)
        l == ListAt(d, prompt_list)
        dragged_idx == IndexOfName(l, dragged_prompt_name)
        target_idx == IndexOfName(l, target_prompt_name)
    IN  IF prompt_list.kind = "none" \/ dragged_idx = 0 \/ target_idx = 0
        THEN Result(d, "noop", FALSE)
        ELSE Result(SetListAt(d, prompt_list,
                        InsertAt(RemoveAt(l, dragged_idx), target_idx, l[dragged_idx])),
                    "done", TRUE)

handle_category_reorder(d, dragged_name, target_name) ==
    LET cats == d.categories
        drag_idx == IndexOfName(cats, dragged_name)
        target_idx == IndexOfName(cats, target_name)
    IN  IF drag_idx = 0 \/ target_idx = 0
        THEN Result(d, "noop", FALSE)
        ELSE Result([d EXCEPT !.categories =
                        InsertAt(RemoveAt(cats, drag_idx), target_idx, cats[drag_idx])],
                    "done", TRUE)

\* on_item_expansion_changed of a category item.
on_item_expansion_changed(d, name, expanded) ==
    IF name = UNCATEGORIZED_NAME
    THEN Result(Put(d, "uncategorized_expanded", expanded), "done", TRUE)
    ELSE LET i == IndexOfName(Get(d, "categories", <<>>), name)
         IN  Result(IF i = 0 THEN d
                    ELSE [d EXCEPT !.categories[i].expanded = expanded],
                    "done", TRUE)

-----------------------------------------------------------------------------
(* ShiftPrompterApp: the hotkey and the window *)

\* The keys the listener reports: the three Shift keys and another key.
ShiftKeys == {"shift", "shift_l", "shift_r"}
Keys == ShiftKeys \cup {"a"}

\* on_shift_press(key) at time current_time: the new last_shift_press_time
\* and whether toggle_window_signal is emitted.
on_shift_press(key, current_time, last_time) ==
    IF key \in ShiftKeys
    THEN [last_shift_press_time |-> current_time,
          emit |-> (current_time - last_time) < DOUBLE_TAP_THRESHOLD_S]
    ELSE [last_shift_press_time |-> last_time, emit |-> FALSE]

\* toggle_window that shows the seeded document again.
toggle_window_resetting(d, shown) ==
    [doc |-> DefaultDoc, visible |-> ~shown]

\* toggle_window: hides the window, or rebuilds the tree from the document
\* (refresh_list), sizes the window and shows it.
toggle_window(d, shown) ==
    [doc |-> d, visible |-> ~shown]

NoTap == [key |-> "none", gap |-> 0, earlier |-> FALSE, emitted |-> FALSE]

\* ShiftPrompterApp.__init__, with no key reported yet.
AppStart ==
    /\ last_shift_press_time = 0
    /\ pending = 0
    /\ visible = FALSE
    /\ tap = NoTap
    /\ pressed = FALSE

-----------------------------------------------------------------------------
(* Initial state and actions *)

\* What the user can type or pick.
NameInputs == PromptNames \cup {""}
ContentInputs == TypedContents \cup {""}
\* The category of a prompt item, or the text of the dialog's combo box (a
\* name typed into its new-category field need not be a category).
CatArgs == CatNames \cup {UNCATEGORIZED_NAME}
CatTextInputs == CatNames \cup {"", UNCATEGORIZED_NAME}
\* The expanded argument of on_item_expansion_changed, as logged in last.
ExpandedInputs == {"true", "false"}

\* The contents prompts.json may have when the program starts: no file, an
\* unreadable one, undecodable text, a JSON scalar, a legacy list, and dicts
\* that lack some keys.
InitialFiles ==
    {FileAbsent, FileUnreadable, FileGarbage, FileScalar,
     FileList(<<Prompt("Closing", "Kind regards,\n\n")>>),
     FileDict([version |-> DATA_VERSION,
               categories |-> <<[name |-> "Work",
                                 prompts |-> <<Prompt("Quick Question", "Kind regards,\n\n")>>]>>]),
     FileDict([version |-> DATA_VERSION])}

NoLast ==
    [op |-> "none", args |-> <<>>, res |-> "none", save |-> "none",
     doc |-> EmptyDict, file |-> FileAbsent]

\* Every write of the file succeeds.
Init ==
    /\ pc = "start"
    /\ prompts_data = EmptyDict
    /\ file \in InitialFiles
    /\ faults = 0
    /\ last = NoLast
    /\ clock = 0
    /\ AppStart

\* The first MaxFaultyWrites writes of the file may fail.
InitFaults ==
    /\ pc = "start"
    /\ prompts_data = EmptyDict
    /\ file \in InitialFiles
    /\ faults = MaxFaultyWrites
    /\ last = NoLast
    /\ clock = 0
    /\ AppStart

\* A handler ends: prompts_data is what it left, and save_prompts has run if
\* the handler reached it.
Finish(op, args, r) ==
    /\ prompts_data' = r.doc
    /\ UNCHANGED appvars
    /\ IF r.saved
       THEN \E o \in save_prompts(r.doc, file, faults) :
                /\ file' = o.file
                /\ faults' = o.faults
                /\ last' = [op |-> op, args |-> args, res |-> r.res, save |-> o.save,
                            doc |-> prompts_data, file |-> file]
       ELSE /\ UNCHANGED <<file, faults>>
            /\ last' = [op |-> op, args |-> args, res |-> r.res, save |-> "none",
                        doc |-> prompts_data, file |-> file]

\* PromptWindow.__init__: prompts_data = {} and load_prompts().
Load ==
    /\ pc = "start"
    /\ LET r == load_prompts(file)
       IN  /\ Finish("load", <<>>, r)
           /\ pc' = IF r.res = "crash" THEN "crashed" ELSE "handled"

\* The handler has returned to the event loop, which waits for the next event.
EventLoop ==
    /\ pc = "handled"
    /\ pc' = "idle"
    /\ last' = NoLast
    /\ UNCHANGED <<prompts_data, file, faults>>
    /\ UNCHANGED appvars

\* handle_exit; the next launch starts from the file as it is.
Quit ==
    /\ pc = "idle"
    /\ pc' = "start"
    /\ prompts_data' = EmptyDict
    /\ last_shift_press_time' = 0
    /\ pending' = 0
    /\ visible' = FALSE
    /\ tap' = NoTap
    /\ pressed' = FALSE
    /\ UNCHANGED <<file, faults, last, clock>>

AddPrompt ==
    /\ pc = "idle"
    /\ TotalPrompts(prompts_data) < MaxPrompts
    /\ \E name \in NameInputs, content \in ContentInputs, category_name \in CatArgs :
          Finish("add_prompt", <<name, content, category_name>>,
                 add_prompt(prompts_data, name, content, category_name))
    /\ pc' = "handled"

AddCategory ==
    /\ pc = "idle"
    /\ \E text \in CatTextInputs :
          Finish("add_category", <<text>>, add_category(prompts_data, text))
    /\ pc' = "handled"

\* A category item exists only when the document has the "categories" key.
RenameCategory ==
    /\ pc = "idle"
    /\ Has(prompts_data, "categories")
    /\ \E old_name \in CatNames, new_name \in CatTextInputs :
          Finish("rename_category", <<old_name, new_name>>,
                 rename_category(prompts_data, old_name, new_name))
    /\ pc' = "handled"

\* The dialog opens, and its fields are read, only when the prompt is found.
EditPrompt ==
    /\ pc = "idle"
    /\ \E p_name \in PromptNames, c_name \in CatArgs :
          IF IndexOfName(ListAt(prompts_data, find_prompt_list(prompts_data, c_name)),
                         p_name) = 0
          THEN Finish("edit_prompt", <<p_name, c_name>>,
                      edit_prompt(prompts_data, p_name, c_name, "", "", c_name))
          ELSE \E new_n \in NameInputs, new_c \in ContentInputs, new_cat_n \in CatArgs :
                  Finish("edit_prompt", <<p_name, c_name, new_n, new_c, new_cat_n>>,
                         edit_prompt(prompts_data, p_name, c_name, new_n, new_c, new_cat_n))
    /\ pc' = "handled"

DeleteCategory ==
    /\ pc = "idle"
    /\ \E name \in CatArgs :
          /\ name = UNCATEGORIZED_NAME \/ Has(prompts_data, "categories")
          /\ Finish("delete_category", <<name>>, delete_category(prompts_data, name))
    /\ pc' = "handled"

DeletePrompt ==
    /\ pc = "idle"
    /\ \E name \in PromptNames, category \in CatArgs :
          Finish("delete_prompt", <<name, category>>,
                 delete_prompt(prompts_data, name, category))
    /\ pc' = "handled"

MovePrompt ==
    /\ pc = "idle"
    /\ \E prompt_name \in PromptNames, old_c_name \in CatArgs, new_c_name \in CatArgs :
          Finish("handle_prompt_move", <<prompt_name, old_c_name, new_c_name>>,
                 handle_prompt_move(prompts_data, prompt_name, old_c_name, new_c_name))
    /\ pc' = "handled"

ReorderPrompt ==
    /\ pc = "idle"
    /\ \E category_name \in CatArgs, dragged \in PromptNames, target \in PromptNames :
          Finish("handle_prompt_reorder", <<category_name, dragged, target>>,
                 handle_prompt_reorder(prompts_data, category_name, dragged, target))
    /\ pc' = "handled"

ReorderCategory ==
    /\ pc = "idle"
    /\ Has(prompts_data, "categories")
    /\ \E dragged_name \in CatNames, target_name \in CatNames :
          Finish("handle_category_reorder", <<dragged_name, target_name>>,
                 handle_category_reorder(prompts_data, dragged_name, target_name))
    /\ pc' = "handled"

\* The itemExpanded or itemCollapsed signal of a category row. The signals
\* that setExpanded raises while refresh_list rebuilds the tree come after
\* the handler's own save_prompts and carry the value the document already
\* has: they are steps of this action that follow the handler's step.
SetExpansion ==
    /\ pc = "idle"
    /\ \E name \in CatArgs, expanded \in ExpandedInputs :
          Finish("on_item_expansion_changed", <<name, expanded>>,
                 on_item_expansion_changed(prompts_data, name, expanded = "true"))
    /\ pc' = "handled"

Next ==
    \/ Load
    \/ EventLoop
    \/ Quit
    \/ AddPrompt
    \/ AddCategory
    \/ RenameCategory
    \/ EditPrompt
    \/ DeleteCategory
    \/ DeletePrompt
    \/ MovePrompt
    \/ ReorderPrompt
    \/ ReorderCategory
    \/ SetExpansion

Spec == Init /\ [][Next]_vars

SpecFaults == InitFaults /\ [][Next]_vars

-----------------------------------------------------------------------------
(* Vocabulary of the properties, written from the data model rather than     *)
(* from the handlers.                                                        *)

\* A handler other than load_prompts has just returned.
Handled(op) == pc = "handled" /\ last.op = op

Categories(d) == Get(d, "categories", <<>>)
Uncategorized(d) == Get(d, "uncategorized", <<>>)

\* The names of the categories of d.
CategoryNameSet(d) == {Categories(d)[i].name : i \in 1..Len(Categories(d))}

\* listCategoryNames() contains n.
Listed(d, n) == n = UNCATEGORIZED_NAME \/ n \in CategoryNameSet(d)

\* The list categoryName resolves to: uncategorized, or the prompts of the
\* first category of that name (<<>> when there is none).
PromptsOf(d, c) ==
    IF c = UNCATEGORIZED_NAME THEN Uncategorized(d)
    ELSE IF c \in CategoryNameSet(d)
    THEN Categories(d)[IndexOfName(Categories(d), c)].prompts
    ELSE <<>>

\* d with the list c resolves to replaced by s.
WithPromptsOf(d, c, s) ==
    IF c = UNCATEGORIZED_NAME THEN Put(d, "uncategorized", s)
    ELSE [d EXCEPT !.categories[IndexOfName(Categories(d), c)].prompts = s]

LastOf(s) == s[Len(s)]

-----------------------------------------------------------------------------
(* C1 *)

\* C1: the number of snippets of the document changes by +1 in add_prompt, by
\* -1 in a delete_prompt that finds its target, and in no other handler; in
\* particular not in an edit_prompt whose new category does not exist.
C1_SnippetConservation ==
    (pc = "handled" /\ last.op # "load") =>
        LET before == TotalPrompts(last.doc)
            after == TotalPrompts(prompts_data)
        IN  \/ after = before
            \/ last.op = "add_prompt" /\ last.res = "done" /\ after = before + 1
            \/ last.op = "delete_prompt" /\ last.res = "done" /\ after = before - 1

-----------------------------------------------------------------------------
(* C2 *)

NamesValid(d) ==
    /\ \A i, j \in 1..Len(Categories(d)) :
          i # j => Categories(d)[i].name # Categories(d)[j].name
    /\ \A i \in 1..Len(Categories(d)) :
          /\ Categories(d)[i].name # ""
          /\ Categories(d)[i].name # UNCATEGORIZED_NAME

\* C2: the names of the categories are pairwise distinct, not empty and not
\* "Uncategorized", in every state reached from a file whose categories are so.
C2_CategoryNames == NamesValid(prompts_data)

\* A rename has been refused because the new name is the name of the other
\* category.
C2_Witness ==
    /\ Handled("rename_category")
    /\ last.res = "rejected"
    /\ Len(Categories(prompts_data)) = 2
    /\ last.args[2] \in CategoryNameSet(prompts_data)

-----------------------------------------------------------------------------
(* C3 *)

\* The document the handler logged in l leaves, computed again from the
\* document and the arguments it started with.
Replay(l) ==
    LET a == l.args
    IN  CASE l.op = "load" -> load_prompts(l.file).doc
          [] l.op = "add_prompt" -> add_prompt(l.doc, a[1], a[2], a[3]).doc
          [] l.op = "add_category" -> add_category(l.doc, a[1]).doc
          [] l.op = "rename_category" -> rename_category(l.doc, a[1], a[2]).doc
          [] l.op = "edit_prompt" ->
                IF Len(a) = 2 THEN l.doc
                ELSE edit_prompt(l.doc, a[1], a[2], a[3], a[4], a[5]).doc
          [] l.op = "delete_category" -> delete_category(l.doc, a[1]).doc
          [] l.op = "delete_prompt" -> delete_prompt(l.doc, a[1], a[2]).doc
          [] l.op = "handle_prompt_move" ->
                handle_prompt_move(l.doc, a[1], a[2], a[3]).doc
          [] l.op = "handle_prompt_reorder" ->
                handle_prompt_reorder(l.doc, a[1], a[2], a[3]).doc
          [] l.op = "handle_category_reorder" ->
                handle_category_reorder(l.doc, a[1], a[2]).doc
          [] l.op = "on_item_expansion_changed" ->
                on_item_expansion_changed(l.doc, a[1], a[2] = "true").doc
          [] OTHER -> l.doc

-----------------------------------------------------------------------------
(* C4 *)

\* C4: whatever the file holds, load_prompts ends with the process running.
C4_LoadNeverFatal == pc # "crashed"

-----------------------------------------------------------------------------
(* C5 *)

\* C5: after add_prompt with a name and a content that are not empty and a
\* category that listCategoryNames() contains, the list the category resolves
\* to ends with the new snippet, and the file that was written holds it.
C5_AddSnippetStores ==
    (/\ Handled("add_prompt")
     /\ last.args[1] # "" /\ last.args[2] # ""
     /\ Listed(last.doc, last.args[3])) =>
        LET l == PromptsOf(prompts_data, last.args[3])
        IN  /\ l = Append(PromptsOf(last.doc, last.args[3]),
                          Prompt(last.args[1], last.args[2]))
            /\ last.save = "ok" => file = FileDict(prompts_data)

-----------------------------------------------------------------------------
(* C6 *)

\* The document after the first snippet named n has left the list of c.
WithoutFirst(d, n, c) ==
    WithPromptsOf(d, c, RemoveAt(PromptsOf(d, c), IndexOfName(PromptsOf(d, c), n)))

\* C6: handle_prompt_move takes the first snippet of that name out of the
\* source list and appends it to the destination list, and changes nothing
\* else; it changes nothing at all when the source has no such snippet or
\* the destination is no listed category.
C6_MoveSnippet ==
    Handled("handle_prompt_move") =>
        LET n == last.args[1]
            from == last.args[2]
            to == last.args[3]
            i == IndexOfName(PromptsOf(last.doc, from), n)
        IN  IF i = 0 \/ ~Listed(last.doc, to)
            THEN prompts_data = last.doc
            ELSE LET d1 == WithoutFirst(last.doc, n, from)
                 IN  prompts_data =
                        WithPromptsOf(d1, to,
                            Append(PromptsOf(d1, to), PromptsOf(last.doc, from)[i]))

-----------------------------------------------------------------------------
(* C7 *)

\* The keys of d other than k are the keys of e other than k, with the same
\* values.
SameBut(d, e, ks) ==
    /\ DOMAIN d \ ks = DOMAIN e \ ks
    /\ \A k \in DOMAIN d \ ks : d[k] = e[k]

\* C7 as stated: the dragged snippet is reinserted at the index the target
\* has after the removal, so it ends immediately before the target in both
\* directions.
C7_InsertBeforeTarget ==
    Handled("handle_prompt_reorder") =>
        LET c == last.args[1]
            l == PromptsOf(last.doc, c)
            d == IndexOfName(l, last.args[2])
            t == IndexOfName(l, last.args[3])
        IN  IF d = 0 \/ t = 0
            THEN prompts_data = last.doc
            ELSE d # t =>
                    LET rest == RemoveAt(l, d)
                        k == IndexOfName(rest, last.args[3])
                    IN  /\ PromptsOf(prompts_data, c) = InsertAt(rest, k, l[d])
                        /\ PromptsOf(prompts_data, c)[k + 1] = l[t]

\* C7: handle_prompt_reorder, when both names are found in the list, removes
\* the dragged snippet and reinserts it at the index the target had before
\* the removal: the dragged snippet ends at the target's old index, which is
\* immediately after the target when it was before the target and
\* immediately before the target when it was after it; the other snippets
\* keep their order and nothing else of the document changes. If either name
\* is not found the document is unchanged.
C7_ReorderSnippet ==
    Handled("handle_prompt_reorder") =>
        LET c == last.args[1]
            l == PromptsOf(last.doc, c)
            m == PromptsOf(prompts_data, c)
            d == IndexOfName(l, last.args[2])
            t == IndexOfName(l, last.args[3])
        IN  IF d = 0 \/ t = 0
            THEN prompts_data = last.doc
            ELSE /\ prompts_data = WithPromptsOf(last.doc, c, m)
                 /\ Len(m) = Len(l)
                 /\ m[t] = l[d]
                 /\ RemoveAt(m, t) = RemoveAt(l, d)
                 /\ d < t => m[t - 1] = l[t]
                 /\ d > t => m[t + 1] = l[t]

\* A snippet dragged onto a later one of a list of three has changed the list.
C7_Witness ==
    /\ Handled("handle_prompt_reorder")
    /\ LET l == PromptsOf(last.doc, last.args[1])
           d == IndexOfName(l, last.args[2])
           t == IndexOfName(l, last.args[3])
       IN  /\ Len(l) = 3
           /\ d > 0 /\ d < t
           /\ PromptsOf(prompts_data, last.args[1])[t] = l[d]
           /\ PromptsOf(prompts_data, last.args[1]) # l

-----------------------------------------------------------------------------
(* C8 *)

\* C8: delete_category of an existing category takes it out of categories,
\* appends its prompts in their order to the end of uncategorized, and
\* leaves the other categories, their order, their prompts and the other
\* keys as they were; delete_category of "Uncategorized" changes nothing.
C8_DeleteCategory ==
    Handled("delete_category") =>
        LET c == last.args[1]
            cats == Categories(last.doc)
            i == IndexOfName(cats, c)
        IN  IF c = UNCATEGORIZED_NAME
            THEN prompts_data = last.doc /\ file = last.file
            ELSE i # 0 =>
                    /\ Categories(prompts_data) = RemoveAt(cats, i)
                    /\ ~Listed(prompts_data, c)
                    /\ Has(prompts_data, "uncategorized")
                    /\ prompts_data.uncategorized =
                          Uncategorized(last.doc) \o cats[i].prompts
                    /\ SameBut(prompts_data, last.doc, {"categories", "uncategorized"})

\* One of two categories, holding two prompts, has been deleted while
\* uncategorized held a prompt.
C8_Witness ==
    /\ Handled("delete_category")
    /\ last.res = "done"
    /\ LET cats == Categories(last.doc)
           i == IndexOfName(cats, last.args[1])
       IN  /\ Len(cats) = 2
           /\ Len(cats[i].prompts) = 2
           /\ Len(Uncategorized(last.doc)) = 1
           /\ Len(Uncategorized(prompts_data)) = 3
           /\ Len(Categories(prompts_data)) = 1

-----------------------------------------------------------------------------
(* C9 *)

\* C9: edit_prompt with a new name and a new content that are not empty and
\* a new category that is listed removes the first snippet of the old name
\* from the old category's list and appends the new snippet to the new
\* category's list, and changes nothing else; with an empty new name or
\* content it changes neither the document nor the file.
C9_EditSnippet ==
    (Handled("edit_prompt") /\ Len(last.args) = 5) =>
        LET n == last.args[1]
            from == last.args[2]
            to == last.args[5]
        IN  IF last.args[3] = "" \/ last.args[4] = ""
            THEN prompts_data = last.doc /\ file = last.file
            ELSE Listed(last.doc, to) =>
                    LET d1 == WithoutFirst(last.doc, n, from)
                    IN  prompts_data =
                           WithPromptsOf(d1, to,
                               Append(PromptsOf(d1, to),
                                      Prompt(last.args[3], last.args[4])))

-----------------------------------------------------------------------------
(* C10 *)

\* How many times n occurs in s.
RECURSIVE Count(_, _)
Count(s, n) ==
    IF s = <<>> THEN 0
    ELSE (IF Head(s) = n THEN 1 ELSE 0) + Count(Tail(s), n)

\* C10: add_category of a name that is not empty and not listed appends the
\* category {name, [], expanded} to categories and changes nothing else,
\* and the name is then listed exactly once; add_category of a listed name
\* is rejected and changes neither the document nor the file. An empty text
\* is ignored.
C10_AddCategory ==
    Handled("add_category") =>
        LET text == last.args[1]
        IN  IF text = "" \/ Listed(last.doc, text)
            THEN /\ prompts_data = last.doc
                 /\ file = last.file
                 /\ text # "" => last.res = "rejected"
            ELSE /\ Has(prompts_data, "categories")
                 /\ prompts_data.categories =
                       Append(Categories(last.doc), Category(text, <<>>, TRUE))
                 /\ SameBut(prompts_data, last.doc, {"categories"})
                 /\ Count(get_category_names(prompts_data), text) = 1
                 /\ last.save = "ok" => file = FileDict(prompts_data)

\* The name of the last of two categories, an empty one, has been refused.
C10_Witness ==
    /\ Handled("add_category")
    /\ last.res = "rejected"
    /\ Len(Categories(last.doc)) = 2
    /\ LastOf(Categories(last.doc)) = Category(last.args[1], <<>>, TRUE)
    /\ prompts_data = last.doc

-----------------------------------------------------------------------------
(* C11 *)

\* The longest legacy list, and the longest uncategorized list, of a file
\* the load is tried on.
MaxStored == 2

StoredPrompts ==
    {Prompt(n, c) : n \in PromptNames,
                    c \in {"Kind regards,\n\n", "Hi, I have a quick question: "}}

StoredLists ==
    UNION {[1..n -> StoredPrompts] : n \in 0..MaxStored}

\* Category lists of a stored document: rows with and without "expanded".
StoredCategories ==
    {<<>>,
     <<[name |-> "Email", prompts |-> <<Prompt("Closing", "Kind regards,\n\n")>>]>>,
     <<Category("Email", <<>>, FALSE),
       [name |-> "Work", prompts |-> <<Prompt("Quick Question", "Kind regards,\n\n")>>]>>}

DocKeys == {"version", "categories", "uncategorized", "uncategorized_expanded"}

\* Documents an earlier version, or an editor, may have left in the file: any
\* of the four keys may be missing.
StoredDocs ==
    {[k \in S |-> full[k]] :
        S \in SUBSET DocKeys,
        full \in [version : {DATA_VERSION}, categories : StoredCategories,
                  uncategorized : {l \in StoredLists : Len(l) <= 1},
                  uncategorized_expanded : BOOLEAN]}

StoredFiles ==
    {FileAbsent} \cup {FileList(l) : l \in StoredLists}
                 \cup {FileDict(d) : d \in StoredDocs}

InitLoad ==
    /\ pc = "start"
    /\ prompts_data = EmptyDict
    /\ file \in StoredFiles
    /\ faults = 0
    /\ last = NoLast
    /\ clock = 0
    /\ AppStart

\* The program is closed and started again: __init__ and load_prompts run on
\* the file the last run left.
Reload ==
    /\ pc = "idle"
    /\ Finish("reload", <<>>, load_prompts(file))
    /\ pc' = "handled"

NextLoad ==
    \/ Load
    \/ EventLoop
    \/ Reload

SpecLoad == InitLoad /\ [][NextLoad]_vars

\* C11: load_prompts turns a legacy list into the document of version 2 with
\* no categories, the list as uncategorized and uncategorized_expanded true;
\* in a stored document it fills a missing uncategorized with [], a missing
\* uncategorized_expanded with true and a missing expanded of a category
\* with true, and changes nothing else; back-filling its result again
\* changes nothing, the file it writes holds the result, and loading that
\* file again gives the same document and the same file.
C11_Migration ==
    /\ (Handled("load") /\ last.file.kind = "list") =>
          prompts_data = [version |-> DATA_VERSION, categories |-> <<>>,
                          uncategorized |-> last.file.data,
                          uncategorized_expanded |-> TRUE]
    /\ (Handled("load") /\ last.file.kind = "dict") =>
          LET d == last.file.data
          IN  /\ SameBut(prompts_data, d,
                         {"categories", "uncategorized", "uncategorized_expanded"})
              /\ Has(prompts_data, "uncategorized")
              /\ prompts_data.uncategorized = Get(d, "uncategorized", <<>>)
              /\ Has(prompts_data, "uncategorized_expanded")
              /\ prompts_data.uncategorized_expanded =
                    Get(d, "uncategorized_expanded", TRUE)
              /\ Has(prompts_data, "categories") <=> Has(d, "categories")
              /\ Len(Categories(prompts_data)) = Len(Categories(d))
              /\ \A i \in 1..Len(Categories(d)) :
                    Categories(prompts_data)[i] =
                       Category(Categories(d)[i].name, Categories(d)[i].prompts,
                                Get(Categories(d)[i], "expanded", TRUE))
    /\ Handled("load") =>
          /\ BackFill(prompts_data) = prompts_data
          /\ file = FileDict(prompts_data)
          /\ load_prompts(file).doc = prompts_data
    /\ Handled("reload") =>
          /\ prompts_data = last.doc
          /\ file = last.file

\* A legacy list of two different snippets has been loaded.
C11_Witness ==
    /\ Handled("load")
    /\ last.file.kind = "list"
    /\ Len(last.file.data) = 2
    /\ last.file.data[1] # last.file.data[2]
    /\ prompts_data.uncategorized = last.file.data
    /\ prompts_data.categories = <<>>
    /\ file = FileDict(prompts_data)

-----------------------------------------------------------------------------
(* C12 *)

\* C12: add_prompt with an empty name or an empty content, for whatever
\* category, is refused: the document and the file are what they were
\* before, and no write of the file is tried.
C12_AddSnippetValidation ==
    (Handled("add_prompt") /\ (last.args[1] = "" \/ last.args[2] = "")) =>
        /\ last.res = "rejected"
        /\ last.save = "none"
        /\ prompts_data = last.doc
        /\ file = last.file

\* A snippet with a name and no content has been refused for an existing
\* category of a document that holds snippets.
C12_Witness ==
    /\ Handled("add_prompt")
    /\ last.args[1] # "" /\ last.args[2] = ""
    /\ last.args[3] \in CategoryNameSet(last.doc)
    /\ TotalPrompts(last.doc) >= 1
    /\ last.res = "rejected"
    /\ prompts_data = last.doc
    /\ file = FileDict(prompts_data)

-----------------------------------------------------------------------------
(* The hotkey listener beside the owning thread *)

\* The last value of the monotonic clock, in tenths of a second.
MaxClock == 6
\* The most toggle requests that wait for the owning thread.
MaxPending == 2

\* The program starts at any value of the clock; the file is missing or
\* cannot be read.
InitKeys ==
    /\ pc = "start"
    /\ prompts_data = EmptyDict
    /\ file \in {FileAbsent, FileUnreadable}
    /\ faults = 0
    /\ last = NoLast
    /\ clock \in 0..MaxClock
    /\ AppStart

\* The listener thread, started by run(), calls on_shift_press for a key.
OnShiftPress ==
    /\ pc \in {"handled", "idle"}
    /\ tap = NoTap
    /\ \E key \in Keys :
          LET r == on_shift_press(key, clock, last_shift_press_time)
          IN  /\ r.emit => pending < MaxPending
              /\ last_shift_press_time' = r.last_shift_press_time
              /\ pending' = IF r.emit THEN pending + 1 ELSE pending
              /\ tap' = [key |-> key, gap |-> clock - last_shift_press_time,
                         earlier |-> pressed, emitted |-> r.emit]
              /\ pressed' = (pressed \/ key \in ShiftKeys)
    /\ UNCHANGED <<pc, prompts_data, file, faults, last, clock, visible>>

\* on_shift_press has returned to the listener.
ListenerReturn ==
    /\ tap # NoTap
    /\ tap' = NoTap
    /\ UNCHANGED <<pc, prompts_data, file, faults, last,
                   last_shift_press_time, clock, pending, visible, pressed>>

\* A tenth of a second passes.
Tick ==
    /\ pc # "crashed"
    /\ tap = NoTap
    /\ clock < MaxClock
    /\ clock' = clock + 1
    /\ UNCHANGED <<pc, prompts_data, file, faults, last,
                   last_shift_press_time, pending, visible, tap, pressed>>

\* The event loop of the owning thread delivers a queued emission of
\* toggle_window_signal to toggle_window.
ToggleWindow ==
    /\ pc = "idle"
    /\ pending > 0
    /\ LET r == toggle_window(prompts_data, visible)
       IN  /\ prompts_data' = r.doc
           /\ visible' = r.visible
    /\ pending' = pending - 1
    /\ UNCHANGED <<pc, file, faults, last, last_shift_press_time, clock, tap, pressed>>

NextKeys ==
    \/ Load
    \/ EventLoop
    \/ Quit
    \/ AddCategory
    \/ DeletePrompt
    \/ OnShiftPress
    \/ ListenerReturn
    \/ Tick
    \/ ToggleWindow

SpecKeys == InitKeys /\ [][NextKeys]_vars

-----------------------------------------------------------------------------
(* C13 *)

\* C13: on_shift_press emits the toggle signal exactly when the key is a
\* Shift key and an earlier Shift press of this run came less than
\* DOUBLE_TAP_THRESHOLD_S before it, so never at the first Shift press; a
\* Shift press sets last_shift_press_time to the current time whether or not
\* it emitted, and another key emits nothing and leaves it as it was.
C13_DoubleTap ==
    tap # NoTap =>
        /\ tap.emitted <=>
              (tap.key \in ShiftKeys /\ tap.earlier /\ tap.gap < DOUBLE_TAP_THRESHOLD_S)
        /\ tap.key \in ShiftKeys => last_shift_press_time = clock
        /\ tap.key \notin ShiftKeys => last_shift_press_time = clock - tap.gap

-----------------------------------------------------------------------------
(* C14 *)

=============================================================================
